---- MODULE Spec2Model ----
(***************************************************************************)
(* Model of glu/lib/seqlib/_edits.pyx: reduce_match, levenshtein_distance, *)
(* damerau_levenshtein_distance, smith_waterman, smith_waterman_gotoh and  *)
(* the shared backtracker _roll_cigar.                                     *)
(*                                                                         *)
(* Strings are sequences of one-character strings.  The source indexes     *)
(* from 0; position p of a C buffer is element p+1 of the sequence that    *)
(* models it.  The loop variable of a Cython "for x in range(..)" loop     *)
(* keeps the last value range() produced (and its previous value when the  *)
(* range is empty), as in Python.                                          *)
(***************************************************************************)
EXTENDS Integers, Sequences, FiniteSets, TLC

VARIABLES s1, s2, match_score, mismatch_score, gap_score, gap_open_score,
          gap_extend_score, rm, lev, lev_rev, dl, sw, gotoh

vars == <<s1, s2, match_score, mismatch_score, gap_score, gap_open_score,
          gap_extend_score, rm, lev, lev_rev, dl, sw, gotoh>>

----------------------------------------------------------------------------
(* Bounds of the model *)

MaxLen == 3

MaxAlignLen == 3

Symbols == {"a", "b", "c"}

AlignSymbols == {"a", "b"}

SeqsUpTo(S, n) == UNION {[1..k -> S] : k \in 0..n}

----------------------------------------------------------------------------
(* Fixed-arity helpers *)

min2(a, b) == IF a < b THEN a ELSE b

min3(a, b, c) == min2(min2(a, b), c)

(* faulty variant of min4: the third candidate is lost *)
min4_drop(a, b, c, d) == min2(min2(a, b), min2(b, d))

min4(a, b, c, d) == min2(min2(a, b), min2(c, d))

max2(a, b) == IF a >= b THEN a ELSE b

max4(a, b, c, d) == max2(max2(a, b), max2(c, d))

(* Python slice s[a:b] of a string: negative indices count from the end,   *)
(* both indices are clamped to 0..len(s)                                    *)
PySlice(s, a, b) ==
  LET n  == Len(s)
      lo == IF a < 0 THEN max2(a + n, 0) ELSE min2(a, n)
      hi == IF b < 0 THEN max2(b + n, 0) ELSE min2(b, n)
  IN IF lo >= hi THEN <<>> ELSE SubSeq(s, lo + 1, hi)

----------------------------------------------------------------------------
(* reduce_match *)

RECURSIVE rm_prefix_loop(_, _, _, _)
(* for i in range(l): if ss1[i]!=ss2[i]: break  -- entered with i = k < l *)
rm_prefix_loop(ss1, ss2, l, k) ==
  IF ss1[k + 1] # ss2[k + 1] THEN k
  ELSE IF k + 1 < l THEN rm_prefix_loop(ss1, ss2, l, k + 1)
  ELSE k

RECURSIVE rm_suffix_loop(_, _, _, _)
(* for j in range(l-i): if ss1[l1-j-1]!=ss2[l2-j-1]: break  -- j = k < cnt *)
rm_suffix_loop(ss1, ss2, cnt, k) ==
  IF ss1[Len(ss1) - k] # ss2[Len(ss2) - k] THEN k
  ELSE IF k + 1 < cnt THEN rm_suffix_loop(ss1, ss2, cnt, k + 1)
  ELSE k

reduce_match(a, b) ==
  LET l1 == Len(a)
      l2 == Len(b)
      l  == min2(l1, l2)
      i  == IF l > 0 THEN rm_prefix_loop(a, b, l, 0) ELSE 0
      j  == IF l - i > 0 THEN rm_suffix_loop(a, b, l - i, 0) ELSE l1 - 1
  IN <<PySlice(a, i, l1 - j), PySlice(b, i, l2 - j), i>>

----------------------------------------------------------------------------
(* levenshtein_distance *)

(* rows are sequences of m+1 costs: C element row[j] is row[j+1] here *)
InitialRow(m) == [x \in 1..(m + 1) |-> x - 1]

ZeroRow(m) == [x \in 1..(m + 1) |-> 0]

RECURSIVE lev_inner(_, _, _, _, _)
(* for j in range(m): current[j+1] = min3(match, insert, delete) *)
lev_inner(c1, ss2, previous, current, j) ==
  IF j >= Len(ss2) THEN current
  ELSE LET c2     == ss2[j + 1]
           cost   == IF c1 = c2 THEN 0 ELSE 1
           match  == previous[j + 1] + cost
           insert == current[j + 1] + 1
           delete == previous[j + 2] + 1
       IN lev_inner(c1, ss2, previous,
                    [current EXCEPT ![j + 2] = min3(match, insert, delete)],
                    j + 1)

RECURSIVE lev_outer(_, _, _, _, _)
(* for i in range(n): swap the rows, current[0] = i+1, run the inner loop *)
lev_outer(ss1, ss2, current, previous, i) ==
  IF i >= Len(ss1) THEN current
  ELSE LET swapped_previous == current
           swapped_current  == [previous EXCEPT ![1] = i + 1]
       IN lev_outer(ss1, ss2,
                    lev_inner(ss1[i + 1], ss2, swapped_previous,
                              swapped_current, 0),
                    swapped_previous, i + 1)

levenshtein_distance(a, b) ==
  LET r   == reduce_match(a, b)
      ss1 == IF Len(r[1]) < Len(r[2]) THEN r[2] ELSE r[1]
      ss2 == IF Len(r[1]) < Len(r[2]) THEN r[1] ELSE r[2]
      m   == Len(ss2)
  IN IF ss2 = <<>> THEN Len(ss1)
     ELSE lev_outer(ss1, ss2, InitialRow(m), ZeroRow(m), 0)[m + 1]

----------------------------------------------------------------------------
(* damerau_levenshtein_distance *)

RECURSIVE dl_inner(_, _, _, _, _, _, _)
(* for j in range(m): current[j+1] = min4(match, insert, delete, trans) *)
dl_inner(ss1, ss2, i, previous2, previous1, current, j) ==
  IF j >= Len(ss2) THEN current
  ELSE LET c1     == ss1[i + 1]
           c2     == ss2[j + 1]
           cost   == IF c1 = c2 THEN 0 ELSE 1
           match  == previous1[j + 1] + cost
           insert == current[j + 1] + 1
           delete == previous1[j + 2] + 1
           trans  == IF i # 0 /\ j # 0 /\ c1 = ss2[j] /\ ss1[i] = c2
                     THEN previous2[j] + 1
                     ELSE match
       IN dl_inner(ss1, ss2, i, previous2, previous1,
                   [current EXCEPT ![j + 2] = min4(match, insert, delete, trans)],
                   j + 1)

RECURSIVE dl_outer(_, _, _, _, _, _)
(* previous2,previous1,current = previous1,current,previous2 *)
dl_outer(ss1, ss2, current, previous1, previous2, i) ==
  IF i >= Len(ss1) THEN current
  ELSE LET rot_previous2 == previous1
           rot_previous1 == current
           rot_current   == [previous2 EXCEPT ![1] = i + 1]
       IN dl_outer(ss1, ss2,
                   dl_inner(ss1, ss2, i, rot_previous2, rot_previous1,
                            rot_current, 0),
                   rot_previous1, rot_previous2, i + 1)

damerau_levenshtein_distance(a, b) ==
  LET r   == reduce_match(a, b)
      ss1 == IF Len(r[1]) < Len(r[2]) THEN r[2] ELSE r[1]
      ss2 == IF Len(r[1]) < Len(r[2]) THEN r[1] ELSE r[2]
      m   == Len(ss2)
  IN IF ss1 = <<>> THEN Len(ss2)
     ELSE dl_outer(ss1, ss2, InitialRow(m), ZeroRow(m), ZeroRow(m), 0)[m + 1]

----------------------------------------------------------------------------
(* State machine of the edit-distance family: the caller holds two         *)
(* sequences and calls the functions on them, each call runs to completion *)

NotCalled == [called |-> FALSE, ret |-> <<>>]

Returned(v) == [called |-> TRUE, ret |-> <<v>>]

DefaultScores ==
  /\ match_score = 1
  /\ mismatch_score = -1
  /\ gap_score = -1
  /\ gap_open_score = -2
  /\ gap_extend_score = -1

InitDist ==
  /\ s1 \in SeqsUpTo(Symbols, MaxLen)
  /\ s2 \in SeqsUpTo(Symbols, MaxLen)
  /\ DefaultScores
  /\ rm = NotCalled
  /\ lev = NotCalled
  /\ lev_rev = NotCalled
  /\ dl = NotCalled
  /\ sw = NotCalled
  /\ gotoh = NotCalled

CallReduceMatch ==
  /\ ~rm.called
  /\ rm' = Returned(reduce_match(s1, s2))
  /\ UNCHANGED <<s1, s2, match_score, mismatch_score, gap_score,
                 gap_open_score, gap_extend_score, lev, lev_rev, dl, sw, gotoh>>

CallLevenshtein ==
  /\ ~lev.called
  /\ lev' = Returned(levenshtein_distance(s1, s2))
  /\ UNCHANGED <<s1, s2, match_score, mismatch_score, gap_score,
                 gap_open_score, gap_extend_score, rm, lev_rev, dl, sw, gotoh>>

CallLevenshteinReversed ==
  /\ ~lev_rev.called
  /\ lev_rev' = Returned(levenshtein_distance(s2, s1))
  /\ UNCHANGED <<s1, s2, match_score, mismatch_score, gap_score,
                 gap_open_score, gap_extend_score, rm, lev, dl, sw, gotoh>>

CallDamerauLevenshtein ==
  /\ ~dl.called
  /\ dl' = Returned(damerau_levenshtein_distance(s1, s2))
  /\ UNCHANGED <<s1, s2, match_score, mismatch_score, gap_score,
                 gap_open_score, gap_extend_score, rm, lev, lev_rev, sw, gotoh>>

NextDist ==
  \/ CallReduceMatch
  \/ CallLevenshtein
  \/ CallLevenshteinReversed
  \/ CallDamerauLevenshtein

SpecDist == InitDist /\ [][NextDist]_vars

----------------------------------------------------------------------------
(* Memory of the alignment engines.  A flat C buffer of size cells is a    *)
(* sequence of that length; cell p is element p+1, <<v>> once it holds v.  *)
(* malloc leaves cells Uninit, calloc zeroes them.  A read outside the buffer, or of a cell    *)
(* never written, yields whatever the memory holds: the junk value the     *)
(* caller of these operators chooses.                                      *)

Uninit == <<>>

NUL == "NUL"

malloc(size) == [x \in 1..size |-> Uninit]

calloc(size, zero) == [x \in 1..size |-> <<zero>>]

InBuffer(buf, p) == p >= 0 /\ p < Len(buf) /\ buf[p + 1] # Uninit

(* p is a cell of the buffer as allocated *)
Allocated(buf, p) == p >= 0 /\ p < Len(buf)

ReadCell(buf, p, junk) == IF InBuffer(buf, p) THEN buf[p + 1][1] ELSE junk

(* a read the loops make of a cell they have written before *)
CellAt(buf, p) == buf[p + 1][1]

WriteCell(buf, p, v) == [buf EXCEPT ![p + 1] = <<v>>]

(* of the cells ps of the table called name, those outside the buffer *)
Outside(name, buf, ps) == {<<name, p>> : p \in {q \in ps : ~Allocated(buf, q)}}

JunkInts == {0, 7}

JunkOps == {"=", "I", "D", "T", NUL}

Junk == [int : JunkInts, op : JunkOps]

----------------------------------------------------------------------------
(* _roll_cigar *)

CigarOp(op, count) == [op |-> op, count |-> count]

_op_str(op) ==
  IF op \in {"S", "N", "M", "=", "X", "I", "D", "T"} THEN op ELSE "ValueError"

Repeat(x, cnt) == [y \in 1..cnt |-> x]

(* faulty variant of walk_step: 'D' moves left and 'I' moves up *)
walk_step_swapped(op, i, j) ==
  IF op \in {"M", "=", "X"} THEN <<i - 1, j - 1>>
  ELSE IF op = "D" THEN <<i, j - 1>>
  ELSE IF op = "I" THEN <<i - 1, j>>
  ELSE <<i - 2, j - 2>>

(* the move of one backtracking step, for a recognised op *)
walk_step(op, i, j) ==
  IF op \in {"M", "=", "X"} THEN <<i - 1, j - 1>>
  ELSE IF op = "D" THEN <<i - 1, j>>
  ELSE IF op = "I" THEN <<i, j - 1>>
  ELSE <<i - 2, j - 2>>

RECURSIVE roll_walk(_, _, _, _, _, _)
(* while i>=0 and j>=0: igar[k] = op = edits[m*i+j]; step by op.  m is the *)
(* value the local m has after the leading 'N' loop.  w carries the buffer *)
(* igar and the steps made so far (position, index read, op); the result   *)
(* adds the final i and j, and raised = TRUE for an unrecognised op        *)
roll_walk(edits, m, i, j, w, junk) ==
  IF ~(i >= 0 /\ j >= 0)
  THEN [raised |-> FALSE, igar |-> w.igar, steps |-> w.steps, i |-> i, j |-> j]
  ELSE LET op   == ReadCell(edits, m * i + j, junk.op)
           next == walk_step(op, i, j)
           w2   == [igar  |-> Append(w.igar, op),
                    steps |-> Append(w.steps, [i |-> i, j |-> j,
                                               index |-> m * i + j, op |-> op])]
       IN IF op \in {"M", "=", "X", "D", "I", "T"}
          THEN roll_walk(edits, m, next[1], next[2], w2, junk)
          ELSE [raised |-> TRUE, igar |-> w2.igar, steps |-> w2.steps,
                i |-> i, j |-> j]

(* faulty variant of rle_same: equal neighbours are never merged *)
rle_same_never(a, op) == FALSE

(* if igar[k]==op *)
rle_same(a, op) == a = op

RECURSIVE roll_rle(_, _, _, _, _)
(* for k in range(k-1,-1,-1): merge equal neighbours of igar into CigarOps *)
roll_rle(igar, k, op, count, cigar) ==
  IF k < 0
  THEN IF count # 0 THEN Append(cigar, CigarOp(_op_str(op), count)) ELSE cigar
  ELSE IF rle_same(igar[k + 1], op)
       THEN roll_rle(igar, k - 1, op, count + 1, cigar)
       ELSE roll_rle(igar, k - 1, igar[k + 1], 1,
                     IF count # 0
                     THEN Append(cigar, CigarOp(_op_str(op), count))
                     ELSE cigar)

(* Result: raised (ValueError), the script, the number k of symbols        *)
(* written to igar, the capacity max2(n,m) igar was allocated with and the *)
(* steps of the walk.  igar is a sequence here: a symbol written past the  *)
(* capacity is read back by the encoding loop as written                   *)
_roll_cigar(n, m, i, j, edits, junk) ==
  LET lead_s == IF n - 1 > i THEN n - 1 - i ELSE 0
      lead_n == IF m - 1 > j THEN m - 1 - j ELSE 0
      m_left == m - lead_n
      walk   == roll_walk(edits, m_left, i, j,
                          [igar  |-> Repeat("S", lead_s) \o Repeat("N", lead_n),
                           steps |-> <<>>],
                          junk)
      tail_n == IF walk.j >= 0 THEN walk.j + 1 ELSE 0
      tail_s == IF walk.i >= 0 THEN walk.i + 1 ELSE 0
      igar   == walk.igar \o Repeat("N", tail_n) \o Repeat("S", tail_s)
  IN IF walk.raised
     THEN [raised |-> TRUE, cigar |-> <<>>, k |-> Len(walk.igar),
           capacity |-> max2(n, m), steps |-> walk.steps]
     ELSE [raised |-> FALSE,
           cigar |-> roll_rle(igar, Len(igar) - 1, NUL, 0, <<>>),
           k |-> Len(igar), capacity |-> max2(n, m), steps |-> walk.steps]

----------------------------------------------------------------------------
(* smith_waterman *)

(* faulty variant of sw_better: a later cell with the same cost wins *)
sw_better_or_equal(mcost, max_cost) == mcost >= max_cost

(* if mcost>max_cost *)
sw_better(mcost, max_cost) == mcost > max_cost

(* the operation recorded for a cell *)
sw_op(mcost, match, insert, c1, c2) ==
  IF mcost = match /\ c1 = c2 THEN "="
  ELSE IF mcost = match THEN "X"
  ELSE IF mcost = insert THEN "I"
  ELSE "D"

(* body of the inner loop of smith_waterman for cell (i, j) *)
sw_cell(st, ss1, ss2, i, j, ms, mm, g) ==
  LET m      == Len(ss2)
      c1     == ss1[i + 1]
      c2     == ss2[j + 1]
      match  == CellAt(st.cost, (m + 1) * i + j)
                  + (IF c1 = c2 THEN ms ELSE mm)
      insert == CellAt(st.cost, (m + 1) * (i + 1) + j) + g
      delete == CellAt(st.cost, (m + 1) * i + j + 1) + g
      mcost  == max4(0, match, insert, delete)
      better == sw_better(mcost, st.max_cost)
      op     == sw_op(mcost, match, insert, c1, c2)
  IN [cost     |-> WriteCell(st.cost, (m + 1) * (i + 1) + j + 1, mcost),
      edits    |-> WriteCell(st.edits, m * i + j, op),
      log      |-> Append(st.log, [i |-> i, j |-> j, match |-> match,
                                   insert |-> insert, delete |-> delete,
                                   mcost |-> mcost, op |-> op]),
      outside  |-> st.outside
                     \cup Outside("cost", st.cost,
                                  {(m + 1) * i + j, (m + 1) * (i + 1) + j,
                                   (m + 1) * i + j + 1, (m + 1) * (i + 1) + j + 1})
                     \cup Outside("edits", st.edits, {m * i + j}),
      max_cost |-> IF better THEN mcost ELSE st.max_cost,
      max_i    |-> IF better THEN i ELSE st.max_i,
      max_j    |-> IF better THEN j ELSE st.max_j]

RECURSIVE sw_inner(_, _, _, _, _, _, _, _)
sw_inner(st, ss1, ss2, i, j, ms, mm, g) ==
  IF j >= Len(ss2) THEN st
  ELSE sw_inner(sw_cell(st, ss1, ss2, i, j, ms, mm, g), ss1, ss2, i, j + 1, ms, mm, g)

RECURSIVE sw_outer(_, _, _, _, _, _, _)
sw_outer(st, ss1, ss2, i, ms, mm, g) ==
  IF i >= Len(ss1) THEN st
  ELSE LET m  == Len(ss2)
           r0 == [st EXCEPT !.cost = WriteCell(st.cost, (m + 1) * (i + 1), 0),
                            !.outside = st.outside
                              \cup Outside("cost", st.cost, {(m + 1) * (i + 1)})]
       IN sw_outer(sw_inner(r0, ss1, ss2, i, 0, ms, mm, g), ss1, ss2, i + 1, ms, mm, g)

(* the tables and the endpoint after the loops of smith_waterman *)
sw_tables(ss1, ss2, ms, mm, g) ==
  LET n  == Len(ss1)
      m  == Len(ss2)
      c0 == [x \in 1..((n + 1) * (m + 1)) |-> IF x <= m + 1 THEN <<0>> ELSE Uninit]
  IN sw_outer([cost |-> c0, edits |-> malloc(n * m),
               log |-> <<>>, outside |-> Outside("cost", c0, 0..m),
               max_cost |-> 0, max_i |-> 0, max_j |-> 0],
              ss1, ss2, 0, ms, mm, g)

(* score = cost[(m+1)*(max_i+1)+max_j+1]; cigar = _roll_cigar(..).  The    *)
(* result also reports what the call did: the trace it recorded (edits,    *)
(* and per cell the candidates, log), the steps of the backtracker, k and  *)
(* capacity of igar, and the accesses made outside the tables (outside)    *)
AlignResult(st, n, m, junk) ==
  LET at    == (m + 1) * (st.max_i + 1) + st.max_j + 1
      score == ReadCell(st.cost, at, junk.int)
      rc    == _roll_cigar(n, m, st.max_i, st.max_j, st.edits, junk)
  IN [raised |-> rc.raised,
      score  |-> IF rc.raised THEN 0 ELSE score,
      cigar  |-> rc.cigar,
      max_i  |-> st.max_i, max_j |-> st.max_j,
      k |-> rc.k, capacity |-> rc.capacity,
      edits |-> st.edits, log |-> st.log, steps |-> rc.steps,
      outside |-> st.outside
                    \cup Outside("cost", st.cost, {at})
                    \cup Outside("edits", st.edits,
                                 {rc.steps[x].index : x \in 1..Len(rc.steps)})]

(* the results a call can produce: one per content of the memory that     *)
(* the final reads find outside the tables                                 *)
smith_waterman(ss1, ss2, ms, mm, g) ==
  LET st == sw_tables(ss1, ss2, ms, mm, g)
  IN {AlignResult(st, Len(ss1), Len(ss2), junk) : junk \in Junk}

----------------------------------------------------------------------------
(* smith_waterman_gotoh *)

(* body of the inner loop of smith_waterman_gotoh for cell (i, j) *)
gotoh_cell(st, ss1, ss2, i, j, ms, mm, go, ge) ==
  LET m      == Len(ss2)
      c1     == ss1[i + 1]
      c2     == ss2[j + 1]
      match  == CellAt(st.cost, (m + 1) * i + j)
                  + (IF c1 = c2 THEN ms ELSE mm)
      insert == max2(CellAt(st.gap1, (m + 1) * (i + 1) + j) + ge,
                     CellAt(st.cost, (m + 1) * (i + 1) + j) + go)
      delete == max2(CellAt(st.gap2, (m + 1) * i + j + 1) + ge,
                     CellAt(st.cost, (m + 1) * i + j + 1) + go)
      mcost  == max4(0, match, insert, delete)
      better == sw_better(mcost, st.max_cost)
      op     == sw_op(mcost, match, insert, c1, c2)
  IN [cost     |-> WriteCell(st.cost, (m + 1) * (i + 1) + j + 1, mcost),
      gap1     |-> WriteCell(st.gap1, (m + 1) * (i + 1) + j + 1, insert),
      gap2     |-> WriteCell(st.gap2, (m + 1) * (i + 1) + j + 1, delete),
      edits    |-> WriteCell(st.edits, m * i + j, op),
      log      |-> Append(st.log, [i |-> i, j |-> j, match |-> match,
                                   insert |-> insert, delete |-> delete,
                                   mcost |-> mcost, op |-> op]),
      outside  |-> st.outside
                     \cup Outside("cost", st.cost,
                                  {(m + 1) * i + j, (m + 1) * (i + 1) + j,
                                   (m + 1) * i + j + 1, (m + 1) * (i + 1) + j + 1})
                     \cup Outside("gap1", st.gap1,
                                  {(m + 1) * (i + 1) + j, (m + 1) * (i + 1) + j + 1})
                     \cup Outside("gap2", st.gap2,
                                  {(m + 1) * i + j + 1, (m + 1) * (i + 1) + j + 1})
                     \cup Outside("edits", st.edits, {m * i + j}),
      max_cost |-> IF better THEN mcost ELSE st.max_cost,
      max_i    |-> IF better THEN i ELSE st.max_i,
      max_j    |-> IF better THEN j ELSE st.max_j]

RECURSIVE gotoh_inner(_, _, _, _, _, _, _, _, _)
gotoh_inner(st, ss1, ss2, i, j, ms, mm, go, ge) ==
  IF j >= Len(ss2) THEN st
  ELSE gotoh_inner(gotoh_cell(st, ss1, ss2, i, j, ms, mm, go, ge),
                   ss1, ss2, i, j + 1, ms, mm, go, ge)

RECURSIVE gotoh_outer(_, _, _, _, _, _, _, _)
gotoh_outer(st, ss1, ss2, i, ms, mm, go, ge) ==
  IF i >= Len(ss1) THEN st
  ELSE LET m  == Len(ss2)
           r0 == [st EXCEPT !.cost = WriteCell(st.cost, (m + 1) * (i + 1), 0),
                            !.gap1 = WriteCell(st.gap1, (m + 1) * (i + 1), 0),
                            !.gap2 = WriteCell(st.gap2, (m + 1) * (i + 1), 0),
                            !.outside = st.outside
                              \cup Outside("cost", st.cost, {(m + 1) * (i + 1)})
                              \cup Outside("gap1", st.gap1, {(m + 1) * (i + 1)})
                              \cup Outside("gap2", st.gap2, {(m + 1) * (i + 1)})]
       IN gotoh_outer(gotoh_inner(r0, ss1, ss2, i, 0, ms, mm, go, ge),
                      ss1, ss2, i + 1, ms, mm, go, ge)

(* the tables and the endpoint after the loops of smith_waterman_gotoh *)
gotoh_tables(ss1, ss2, ms, mm, go, ge) ==
  LET n == Len(ss1)
      m == Len(ss2)
  IN gotoh_outer([cost  |-> calloc((n + 1) * (m + 1), 0),
                  gap1  |-> calloc((n + 1) * (m + 1), 0),
                  gap2  |-> calloc((n + 1) * (m + 1), 0),
                  edits |-> calloc(n * m, NUL),
                  log |-> <<>>,
                  outside |-> Outside("cost", calloc((n + 1) * (m + 1), 0), 0..m),
                  max_cost |-> 0, max_i |-> 0, max_j |-> 0],
                 ss1, ss2, 0, ms, mm, go, ge)

smith_waterman_gotoh(ss1, ss2, ms, mm, go, ge) ==
  IF go = ge
  THEN smith_waterman(ss1, ss2, ms, mm, go)
  ELSE LET st == gotoh_tables(ss1, ss2, ms, mm, go, ge)
       IN {AlignResult(st, Len(ss1), Len(ss2), junk) : junk \in Junk}

----------------------------------------------------------------------------
(* State machine of the alignment family: the caller holds two sequences   *)
(* and the scores and calls the two engines on them                        *)

MatchScores == {1, 2}

MismatchScores == {-1, 0}

GapScores == {-2, -1}

GapExtendScores == {-1, 0}

InitAlign ==
  /\ s1 \in SeqsUpTo(AlignSymbols, MaxAlignLen)
  /\ s2 \in SeqsUpTo(AlignSymbols, MaxAlignLen)
  /\ match_score \in MatchScores
  /\ mismatch_score \in MismatchScores
  /\ gap_score \in GapScores
  /\ gap_open_score \in GapScores
  /\ gap_extend_score \in GapExtendScores
  /\ rm = NotCalled
  /\ lev = NotCalled
  /\ lev_rev = NotCalled
  /\ dl = NotCalled
  /\ sw = NotCalled
  /\ gotoh = NotCalled

CallSmithWaterman ==
  /\ ~sw.called
  /\ \E r \in smith_waterman(s1, s2, match_score, mismatch_score, gap_score) :
       sw' = Returned(r)
  /\ UNCHANGED <<s1, s2, match_score, mismatch_score, gap_score,
                 gap_open_score, gap_extend_score, rm, lev, lev_rev, dl, gotoh>>

CallSmithWatermanGotoh ==
  /\ ~gotoh.called
  /\ \E r \in smith_waterman_gotoh(s1, s2, match_score, mismatch_score,
                                    gap_open_score, gap_extend_score) :
       gotoh' = Returned(r)
  /\ UNCHANGED <<s1, s2, match_score, mismatch_score, gap_score,
                 gap_open_score, gap_extend_score, rm, lev, lev_rev, dl, sw>>

NextAlign ==
  \/ CallSmithWaterman
  \/ CallSmithWatermanGotoh

SpecAlign == InitAlign /\ [][NextAlign]_vars

----------------------------------------------------------------------------
(* Reference definitions used by the properties *)

(* the edit-distance recurrence on the full, untrimmed sequences; with     *)
(* transpose = TRUE the adjacent-transposition candidate is added          *)
RefCost(a, b, transpose) ==
  LET c[i \in 0..Len(a), j \in 0..Len(b)] ==
        IF j = 0 THEN i
        ELSE IF i = 0 THEN j
        ELSE LET base == min3(c[i - 1, j - 1] + (IF a[i] = b[j] THEN 0 ELSE 1),
                              c[i, j - 1] + 1,
                              c[i - 1, j] + 1)
             IN IF transpose /\ i > 1 /\ j > 1 /\ a[i - 1] = b[j] /\ a[i] = b[j - 1]
                THEN min2(base, c[i - 2, j - 2] + 1)
                ELSE base
  IN c[Len(a), Len(b)]

CommonPrefixLen(a, b) ==
  CHOOSE k \in 0..min2(Len(a), Len(b)) :
    /\ \A x \in 1..k : a[x] = b[x]
    /\ k < min2(Len(a), Len(b)) => a[k + 1] # b[k + 1]

CommonSuffixLen(a, b) ==
  CHOOSE k \in 0..min2(Len(a), Len(b)) :
    /\ \A x \in 0..(k - 1) : a[Len(a) - x] = b[Len(b) - x]
    /\ k < min2(Len(a), Len(b)) => a[Len(a) - k] # b[Len(b) - k]

RefReduce(a, b) ==
  LET k  == CommonPrefixLen(a, b)
      ra == SubSeq(a, k + 1, Len(a))
      rb == SubSeq(b, k + 1, Len(b))
      t  == CommonSuffixLen(ra, rb)
  IN <<SubSeq(ra, 1, Len(ra) - t), SubSeq(rb, 1, Len(rb) - t), k>>

----------------------------------------------------------------------------
(* Properties of the edit-distance family *)

(* C1: levenshtein_distance(A,B) is the value of the reference recurrence  *)
(* (insertions, deletions, substitutions) on the untrimmed A and B, for    *)
(* all A and B including empty ones                                        *)
C1_LevenshteinIsEditDistance ==
  lev.called => lev.ret[1] = RefCost(s1, s2, FALSE)

(* C2: damerau_levenshtein_distance(A,B) is the value of the recurrence    *)
(* extended with the adjacent-transposition candidate on the untrimmed A   *)
(* and B                                                                   *)
C2_DamerauIsRestrictedEditDistance ==
  dl.called => dl.ret[1] = RefCost(s1, s2, TRUE)

(* C4: reduce_match(A,B) returns A and B without their longest common      *)
(* prefix and without the longest common suffix of the remainders, and the *)
(* length of that prefix                                                   *)
C4_ReduceMatchStripsPrefixAndSuffix ==
  rm.called => rm.ret[1] = RefReduce(s1, s2)

(* C5: the Levenshtein and the Damerau-Levenshtein distance of the output  *)
(* of reduce_match equal those of its input, also when one input is empty  *)
C5_ReduceMatchKeepsDistance ==
  rm.called =>
    /\ RefCost(rm.ret[1][1], rm.ret[1][2], FALSE) = RefCost(s1, s2, FALSE)
    /\ RefCost(rm.ret[1][1], rm.ret[1][2], TRUE) = RefCost(s1, s2, TRUE)

(* C6: levenshtein_distance(A,B) equals levenshtein_distance(B,A), also    *)
(* when exactly one of A and B is empty                                    *)
C6_LevenshteinSymmetric ==
  (lev.called /\ lev_rev.called) => lev.ret[1] = lev_rev.ret[1]

(* C7: damerau_levenshtein_distance(A,B) never exceeds                     *)
(* levenshtein_distance(A,B)                                               *)
C7_DamerauAtMostLevenshtein ==
  (lev.called /\ dl.called) => dl.ret[1] <= lev.ret[1]

(* both distances returned for a pair on which a transposition pays off *)
C7_Witness ==
  /\ lev.called /\ dl.called
  /\ dl.ret[1] < lev.ret[1]
  /\ Len(s1) >= 2 /\ Len(s2) >= 2

----------------------------------------------------------------------------
(* Properties of the alignment family *)

NonEmptyInputs == s1 # <<>> /\ s2 # <<>>

(* score of one CigarOp: first_gap for the first symbol of an 'I'/'D' run  *)
(* and next_gap for each further one                                       *)
OpScore(c, ms, mm, first_gap, next_gap) ==
  IF c.op = "=" THEN c.count * ms
  ELSE IF c.op = "X" THEN c.count * mm
  ELSE IF c.op \in {"I", "D"} THEN first_gap + (c.count - 1) * next_gap
  ELSE 0

RECURSIVE ScriptScore(_, _, _, _, _)
ScriptScore(cigar, ms, mm, first_gap, next_gap) ==
  IF cigar = <<>> THEN 0
  ELSE OpScore(Head(cigar), ms, mm, first_gap, next_gap)
         + ScriptScore(Tail(cigar), ms, mm, first_gap, next_gap)

(* C3: for non-empty sequences the script returned by smith_waterman and   *)
(* by smith_waterman_gotoh scores exactly the returned score               *)
C3_ScriptScoresReturnedScore ==
  /\ (sw.called /\ NonEmptyInputs /\ ~sw.ret[1].raised) =>
       ScriptScore(sw.ret[1].cigar, match_score, mismatch_score,
                   gap_score, gap_score) = sw.ret[1].score
  /\ (gotoh.called /\ NonEmptyInputs /\ ~gotoh.ret[1].raised) =>
       ScriptScore(gotoh.ret[1].cigar, match_score, mismatch_score,
                   gap_open_score, gap_extend_score) = gotoh.ret[1].score

Outcome(r) == <<r.raised, r.score, r.cigar>>

(* C8: with gap_open_score == gap_extend_score == g, smith_waterman_gotoh  *)
(* returns the same (score, script) as smith_waterman with gap_score = g,  *)
(* for all sequences                                                       *)
C8_GotohEqualGapsSameAsSmithWaterman ==
  (sw.called /\ gotoh.called /\ gap_open_score = gap_extend_score
     /\ gap_score = gap_open_score) =>
    Outcome(gotoh.ret[1]) = Outcome(sw.ret[1])

RECURSIVE Expand(_)
(* one op per position, in script order *)
Expand(cigar) ==
  IF cigar = <<>> THEN <<>>
  ELSE Repeat(Head(cigar).op, Head(cigar).count) \o Expand(Tail(cigar))

Reverse(s) == [x \in 1..Len(s) |-> s[Len(s) + 1 - x]]

(* the encoder of _roll_cigar applied to the expansion of a script *)
Reencode(cigar) ==
  LET flat == Reverse(Expand(cigar))
  IN roll_rle(flat, Len(flat) - 1, NUL, 0, <<>>)

MaximalRun(cigar) ==
  /\ \A x \in 1..Len(cigar) : cigar[x].count >= 1
  /\ \A x \in 1..(Len(cigar) - 1) : cigar[x].op # cigar[x + 1].op
  /\ Reencode(cigar) = cigar

(* C9: every script returned by the backtracker is maximal-run encoded:    *)
(* counts are >= 1, adjacent CigarOps differ in op, and re-encoding the    *)
(* expanded script reproduces it                                           *)
C9_ScriptIsMaximalRunEncoded ==
  /\ (sw.called /\ ~sw.ret[1].raised) => MaximalRun(sw.ret[1].cigar)
  /\ (gotoh.called /\ ~gotoh.ret[1].raised) => MaximalRun(gotoh.ret[1].cigar)

(* a returned script with several CigarOps, one of them merging a run *)
C9_Witness ==
  /\ gotoh.called /\ ~gotoh.ret[1].raised /\ NonEmptyInputs
  /\ gap_open_score # gap_extend_score
  /\ Len(gotoh.ret[1].cigar) >= 2
  /\ \E x \in 1..Len(gotoh.ret[1].cigar) : gotoh.ret[1].cigar[x].count >= 2
  /\ sw.called /\ ~sw.ret[1].raised
  /\ \E x \in 1..Len(sw.ret[1].cigar) : sw.ret[1].cigar[x].count >= 2

(* the zero-clamped local-alignment recurrence, rows and columns from 0 *)
RefLocal(a, b, ms, mm, g) ==
  LET c[i \in 0..Len(a), j \in 0..Len(b)] ==
        IF i = 0 \/ j = 0 THEN 0
        ELSE max4(0,
                  c[i - 1, j - 1] + (IF a[i] = b[j] THEN ms ELSE mm),
                  c[i, j - 1] + g,
                  c[i - 1, j] + g)
  IN c

RowMajorBefore(p, q) == p[1] < q[1] \/ (p[1] = q[1] /\ p[2] < q[2])

RecordedOpProducedValue(c) ==
  /\ c.op \in {"=", "X"} => c.match = c.mcost
  /\ c.op = "I" => c.insert = c.mcost
  /\ c.op = "D" => c.delete = c.mcost
  /\ c.match = c.mcost => c.op \in {"=", "X"}
  /\ (c.match # c.mcost /\ c.insert = c.mcost) => c.op = "I"

TraceRecordsProducers(r) ==
  \A x \in 1..Len(r.log) : RecordedOpProducedValue(r.log[x])

(* C11: in smith_waterman and smith_waterman_gotoh the op recorded for     *)
(* every cell is a candidate that produced the cell's value ('='/'X' only  *)
(* if the diagonal candidate equals it, 'I' only if the insertion does,    *)
(* 'D' only if the deletion does; match before insertion before deletion), *)
(* also for cells whose value is 0 because of the clamp                    *)
C11_RecordedOpProducedCellValue ==
  /\ sw.called => TraceRecordsProducers(sw.ret[1])
  /\ gotoh.called => TraceRecordsProducers(gotoh.ret[1])

(* the steps of the walk start at the endpoint, emit the op recorded for   *)
(* cell (i, j) of the n-by-m trace and move by that op                     *)
WalkFollowsTrace(r) ==
  /\ r.steps # <<>>
  /\ r.steps[1].i = r.max_i /\ r.steps[1].j = r.max_j
  /\ \A x \in 1..Len(r.steps) :
       LET st == r.steps[x]
       IN /\ st.op = CellAt(r.edits, Len(s2) * st.i + st.j)
          /\ x < Len(r.steps) =>
               <<r.steps[x + 1].i, r.steps[x + 1].j>> =
                 (IF st.op \in {"=", "X"} THEN <<st.i - 1, st.j - 1>>
                  ELSE IF st.op = "I" THEN <<st.i, st.j - 1>>
                  ELSE <<st.i - 1, st.j>>)

(* C12: during backtracking in _roll_cigar the op emitted at each step is  *)
(* the op the engine recorded for the current cell (i, j) of the n-by-m    *)
(* trace, for every endpoint including those with j* < m-1; '='/'X' moves  *)
(* to (i-1, j-1), 'I' to (i, j-1) and 'D' to (i-1, j)                      *)
C12_WalkEmitsRecordedOps ==
  /\ (sw.called /\ NonEmptyInputs) => WalkFollowsTrace(sw.ret[1])
  /\ (gotoh.called /\ NonEmptyInputs) => WalkFollowsTrace(gotoh.ret[1])

RECURSIVE CountOps(_, _)
(* number of symbols the script gives to the ops in ops *)
CountOps(cigar, ops) ==
  IF cigar = <<>> THEN 0
  ELSE (IF Head(cigar).op \in ops THEN Head(cigar).count ELSE 0)
         + CountOps(Tail(cigar), ops)

CoversBoth(r) ==
  /\ ~r.raised
  /\ CountOps(r.cigar, {"=", "X", "D", "S"}) = Len(s1)
  /\ CountOps(r.cigar, {"=", "X", "I", "N"}) = Len(s2)

C14_StepBufferWithinCapacity ==
  /\ sw.called => sw.ret[1].k <= sw.ret[1].capacity
  /\ gotoh.called => gotoh.ret[1].k <= gotoh.ret[1].capacity

(* C15: smith_waterman and smith_waterman_gotoh never read or write a cell *)
(* outside the tables they allocated, also when s1 or s2 is empty          *)
C15_AccessesInsideTables ==
  /\ sw.called => sw.ret[1].outside = {}
  /\ gotoh.called => gotoh.ret[1].outside = {}

====
